---------------------------- MODULE Spec2Model ----------------------------
(***************************************************************************)
(* Model of the fixture-to-test-source generators of evmts/xvi:            *)
(*   scripts/generate_tests.py       (multi-source generator)              *)
(*   scripts/generate_spec_tests.py  (single-source generator, two modes)  *)
(* Strings are sequences of one-character strings; paths are sequences of  *)
(* segments; a segment is a sequence of tokens, so that an extension such  *)
(* as ".json" is one token of the segment it ends.                         *)
(***************************************************************************)
EXTENDS Integers, Sequences, FiniteSets, TLC

VARIABLES
    \* ---- identifier sanitizer, applied to one raw name
    raw,          \* the raw test-case name
    variant,      \* which sanitize_test_name was applied: "none", "rich", "plain"
    sanitized,    \* the result of the latest pass
    once,         \* the result of the first pass
    passes,       \* how many times the sanitizer has been applied
    \* ---- one generation run (main of either generator)
    gen,          \* "multi" (generate_tests.py), "state", "blockchain" (generate_spec_tests.py)
    pc,           \* position of main: "idle", "scan", "compile", "done", "aborted"
    fs,           \* fixture files: repo-relative path -> content
    out,          \* generated files: repo-relative path -> file written
    srcIdx,       \* index of the test source being processed
    todo,         \* json_files still to compile for the current source
    edits,        \* fixture changes made since the last run
    used_names,   \* used_names of the last generate_test_file call
    total_tests,  \* total_tests of the current run
    total_files,  \* total_files of the current run (multi-source generator)
    scanned,      \* every fixture file handed to generate_test_file in this run
    prevOut,      \* paths under the generation root when the run started
    \* ---- fixture acquisition (ensure_*)
    which,        \* "blockchain" or "general"
    canonical,    \* state of the canonical fixtures path
    legacy,       \* state of ethereum-tests/BlockchainTests
    archive,      \* state of the .tgz archive
    extracted,    \* state of <canonical parent>/BlockchainTests
    otherDir,     \* whether the archive's foreign top-level directory is on disk
    symlinkWorks, \* whether os.symlink succeeds on this platform
    copyWorks,    \* whether shutil.copytree succeeds
    calls,        \* number of ensure calls made
    tiers,        \* what the last call did with each acquisition tier
    destructive,  \* deleting / overwriting / extracting steps of the last call
    eresult,      \* "none", "returned", "raised"
    afterFirst,   \* filesystem state after the first call
    \* ---- result analyzer (analyze_test_results.py)
    log_file,     \* the log file: whether it exists, and its lines
    apc,          \* position of the analyzer: "start", "analyzed", "exited"
    report        \* the value analyze_test_results returned

sanVars == <<raw, variant, sanitized, once, passes>>
genVars == <<gen, pc, fs, out, srcIdx, todo, edits, used_names,
             total_tests, total_files, scanned, prevOut>>
ensVars == <<which, canonical, legacy, archive, extracted, otherDir,
             symlinkWorks, copyWorks, calls, tiers, destructive, eresult,
             afterFirst>>
anaVars == <<log_file, apc, report>>
vars == <<sanVars, genVars, ensVars, anaVars>>

-----------------------------------------------------------------------------
\* Bounds of the model.
MaxLen == 3        \* longest raw name drawn for the sanitizer
MaxKeys == 3       \* most keys in one fixture file
MaxFiles == 2      \* most fixture files on disk at once
MaxEdits == 1      \* most fixture changes between two runs
MaxCalls == 2      \* most ensure calls in one behaviour
MaxPasses == 2     \* most sanitizer passes over one name

-----------------------------------------------------------------------------
\* Characters.
Letters == {"a", "e", "s", "t"}
Digits == {"0", "1", "2", "3", "4", "5", "6", "7", "8", "9"}
IsAlnum(c) == c \in Letters \cup Digits
IsDigit(c) == c \in Digits
Sep == "_"

\* str.replace(old, new) for a one-character old.
ReplaceChar(s, old, new) ==
    [i \in 1..Len(s) |-> LET c == s[i] IN IF c = old THEN new ELSE c]

\* str.replace(old, new) for a two-character old: leftmost, non-overlapping.
RECURSIVE ReplacePair(_, _, _, _)
ReplacePair(s, c1, c2, new) ==
    IF Len(s) < 2 THEN s
    ELSE IF s[1] = c1 /\ s[2] = c2
         THEN <<new>> \o ReplacePair(SubSeq(s, 3, Len(s)), c1, c2, new)
         ELSE <<s[1]>> \o ReplacePair(Tail(s), c1, c2, new)

RECURSIVE ReplaceChars(_, _, _)
ReplaceChars(s, olds, new) ==
    IF olds = <<>> THEN s
    ELSE ReplaceChars(ReplaceChar(s, Head(olds), new), Tail(olds), new)

HasPair(s, c1, c2) == \E i \in 1..(Len(s) - 1) : s[i] = c1 /\ s[i + 1] = c2

\* "".join(c if c.isalnum() or c == "_" else "_" for c in sanitized)
MapSpecial(s) ==
    [i \in 1..Len(s) |-> LET c == s[i] IN IF IsAlnum(c) \/ c = Sep THEN c ELSE Sep]

\* (fault) a single sanitized.replace("__", "_") instead of the while loop
CollapseOnce(s) == ReplacePair(s, Sep, Sep, Sep)

\* while "__" in sanitized: sanitized = sanitized.replace("__", "_")
RECURSIVE Collapse(_)
Collapse(s) == IF HasPair(s, Sep, Sep) THEN Collapse(ReplacePair(s, Sep, Sep, Sep)) ELSE s

TestPrefix == <<"t", "e", "s", "t", "_">>

\* if sanitized and sanitized[0].isdigit(): sanitized = "test_" + sanitized
PrefixDigit(s) == IF s # <<>> /\ IsDigit(s[1]) THEN TestPrefix \o s ELSE s

\* sanitize_test_name of generate_tests.py
SanitizeRich(name) ==
    LET s1 == ReplaceChars(name, <<"-", ".", " ">>, Sep)
        s2 == ReplaceChars(ReplacePair(s1, ":", ":", Sep), <<"(", ")">>, Sep)
        s3 == ReplaceChars(s2, <<"[", "]", ",">>, Sep)
    IN  PrefixDigit(Collapse(MapSpecial(s3)))

\* sanitize_test_name of generate_spec_tests.py
SanitizePlain(name) ==
    PrefixDigit(MapSpecial(ReplaceChars(name, <<"-", ".", " ">>, Sep)))

Sanitize(v, name) == IF v = "rich" THEN SanitizeRich(name) ELSE SanitizePlain(name)

\* f"{n}" for a non-negative integer
DigitOf(d) == CASE d = 0 -> "0" [] d = 1 -> "1" [] d = 2 -> "2" [] d = 3 -> "3"
                [] d = 4 -> "4" [] d = 5 -> "5" [] d = 6 -> "6" [] d = 7 -> "7"
                [] d = 8 -> "8" [] OTHER -> "9"
RECURSIVE Dec(_)
Dec(n) == IF n < 10 THEN <<DigitOf(n)>> ELSE Dec(n \div 10) \o <<DigitOf(n % 10)>>

-----------------------------------------------------------------------------
\* Paths.  A segment is a sequence of tokens; a path is a sequence of segments.
RepoRoot == << <<"repo">> >>
MetaSeg == <<".meta">>
AJson == <<"a", ".json">>
XJsonD == <<"x", ".json", ".d">>

\* specs_root / source["path"] of the three fixture sources
StateTestsRoot == RepoRoot \o << <<"execution-specs">>, <<"tests">>, <<"eest">>,
                                 <<"static">>, <<"state_tests">> >>
GeneralRoot == RepoRoot \o << <<"ethereum-tests">>, <<"GeneralStateTests">> >>
BlockchainRoot == RepoRoot \o << <<"execution-spec-tests">>, <<"fixtures">>,
                                 <<"blockchain_tests">> >>

\* output_root of each generator
OutputRoot(g) ==
    RepoRoot \o << <<"test">>, <<"specs">> >> \o
    << IF g = "multi" THEN <<"generated">>
       ELSE IF g = "state" THEN <<"generated_state">>
       ELSE <<"generated_blockchain">> >>

\* test_sources of generate_tests.main, in order
TestSources == << [name |-> "execution_specs", path |-> StateTestsRoot],
                  [name |-> "ethereum_tests", path |-> GeneralRoot] >>

\* specs_root of generate_spec_tests.main
SpecsRoot(g) == IF g = "state" THEN StateTestsRoot ELSE BlockchainRoot

IsUnder(p, base) == Len(p) > Len(base) /\ SubSeq(p, 1, Len(base)) = base

\* Path.relative_to(base), for p under base
RelativeTo(p, base) == SubSeq(p, Len(base) + 1, Len(p))

\* str.replace(".json", ".zig") on the text of a path: every occurrence
ReplaceJson(p) ==
    [i \in 1..Len(p) |->
        [j \in 1..Len(p[i]) |-> IF p[i][j] = ".json" THEN ".zig" ELSE p[i][j]]]

\* Path.with_suffix(".zig"): the last suffix of the last segment only
WithSuffixZig(p) ==
    LET last == p[Len(p)]
        renamed == IF Len(last) > 1
                   THEN SubSeq(last, 1, Len(last) - 1) \o <<".zig">>
                   ELSE last \o <<".zig">>
    IN  SubSeq(p, 1, Len(p) - 1) \o <<renamed>>

\* base.rglob("*.json"): every fixture file below base (all files of fs are
\* *.json files); a base that does not exist yields nothing.
Rglob(files, base) == {p \in DOMAIN files : IsUnder(p, base)}

\* "../" * depth + "root.zig", as the sequence of its tokens
RECURSIVE Ups(_)
Ups(n) == IF n <= 0 THEN <<>> ELSE <<"..">> \o Ups(n - 1)

\* (fault for C4: the file name left out of the count)
ImportDepthNoFile(output_file, output_dir) == Len(RelativeTo(output_file, output_dir)) - 1
\* len(output_file.relative_to(output_dir).parts)
ImportDepth(output_file, output_dir) == Len(RelativeTo(output_file, output_dir))

RootImport(output_file, output_dir) ==
    Ups(ImportDepth(output_file, output_dir)) \o <<"root.zig">>

EmptyFn == [x \in {} |-> 0]

\* (fault for C2: the counter of the previous file kept)
StaleUsedNames(prev) == prev
\* used_names = {} at the start of every generate_test_file call
FreshUsedNames(prev) == EmptyFn

\* the loop over data.keys(): one unit per key, names deduplicated by counter
RECURSIVE EmitUnits(_, _, _, _, _)
EmitUnits(v, keys, i, used, units) ==
    IF i > Len(keys) THEN [used |-> used, units |-> units]
    ELSE LET safe_test_name == Sanitize(v, keys[i])
         IN  IF safe_test_name \in DOMAIN used
             THEN LET n == used[safe_test_name] + 1
                  IN  EmitUnits(v, keys, i + 1,
                                [used EXCEPT ![safe_test_name] = n],
                                Append(units,
                                       [id |-> safe_test_name \o <<Sep>> \o Dec(n),
                                        test_name |-> keys[i]]))
             ELSE EmitUnits(v, keys, i + 1,
                            used @@ (safe_test_name :> 0),
                            Append(units, [id |-> safe_test_name,
                                           test_name |-> keys[i]]))

\* What one generate_test_file call did: raised (the exception left the
\* function), count (its return value), written (the file it wrote, if any).
Skipped(prev) == [raised |-> FALSE, count |-> 0, written |-> EmptyFn, used |-> prev]
Raised(prev) == [raised |-> TRUE, count |-> 0, written |-> EmptyFn, used |-> prev]

\* try: json.load(open(json_path)) except (json.JSONDecodeError, IOError)
\* A file whose bytes do not decode raises UnicodeDecodeError, a ValueError
\* that is neither of the two caught classes.
ReadOutcome(content) ==
    CASE content.kind = "undecodable" -> "raise"
      [] content.kind \in {"oserror", "malformed"} -> "skip"
      [] content.kind # "dict" -> "skip"
      [] OTHER -> "compile"

Compiled(v, content, json_file, json_text, output_file, output_dir, prev) ==
    LET r == EmitUnits(v, content.keys, 1, FreshUsedNames(prev), <<>>)
    IN  [raised |-> FALSE,
         count |-> Len(r.units),
         written |-> output_file :>
             [import |-> RootImport(output_file, output_dir),
              units |-> r.units,
              json_path |-> json_text,
              src |-> json_file,
              fresh |-> TRUE],
         used |-> r.used]

\* generate_test_file of generate_tests.py
MultiOutputFile(output_dir, json_rel_path, source_name) ==
    IF source_name = "ethereum_tests"
    THEN output_dir \o << <<"ethereum_tests">> >> \o ReplaceJson(json_rel_path)
    ELSE output_dir \o ReplaceJson(json_rel_path)

GenerateTestFileMulti(json_path, output_dir, json_rel_path, source_name, prev) ==
    LET content == fs[json_path]
        outcome == ReadOutcome(content)
    IN  IF outcome = "raise" THEN Raised(prev)
        ELSE IF outcome = "skip" THEN Skipped(prev)
        ELSE Compiled("rich", content, json_path, json_rel_path,
                      MultiOutputFile(output_dir, json_rel_path, source_name),
                      output_dir, prev)

\* generate_test_file of generate_spec_tests.py
SingleOutputFile(output_dir, json_path, specs_root) ==
    output_dir \o WithSuffixZig(RelativeTo(json_path, specs_root))

GenerateTestFileSingle(json_path, output_dir, specs_root, repo_root, prev) ==
    LET content == fs[json_path]
        outcome == ReadOutcome(content)
        rel_path == RelativeTo(json_path, specs_root)
    IN  IF outcome = "raise" THEN Raised(prev)
        ELSE IF outcome = "skip" THEN Skipped(prev)
        ELSE Compiled("plain", content, json_path,
                      RelativeTo(specs_root \o rel_path, repo_root),
                      SingleOutputFile(output_dir, json_path, specs_root),
                      output_dir, prev)

\* scan_test_directory: every *.json below base_path, with its path
\* relative to the repository root
ScanTestDirectory(base_path, source_name, repo_root) ==
    {[json_file |-> f, rel_path |-> RelativeTo(f, repo_root)] :
        f \in Rglob(fs, base_path)}

\* [f for f in specs_root.rglob("*.json") if ".meta" not in f.parts]
HasMeta(p) == \E i \in 1..Len(p) : p[i] = MetaSeg
JsonFiles(specs_root) ==
    {[json_file |-> f, rel_path |-> <<>>] :
        f \in {g \in Rglob(fs, specs_root) : ~HasMeta(g)}}

\* (fault for C7: the output root created but not removed first)
KeepTree(o, root) == o
\* shutil.rmtree(output_root); output_root.mkdir(): nothing stays below it
RmTree(o, root) == [p \in {q \in DOMAIN o : ~IsUnder(q, root)} |-> o[p]]

UnderRoot(o, root) == {p \in DOMAIN o : IsUnder(p, root)}

\* What is on disk when a run starts was written before it: fresh marks the
\* files written since the start of the latest run.
Aged(o) == [p \in DOMAIN o |-> [o[p] EXCEPT !.fresh = FALSE]]

-----------------------------------------------------------------------------
\* Fixture contents and fixture trees the runs are checked over.
Bad(k) == [kind |-> k, keys |-> <<>>]
Dict(k) == [kind |-> "dict", keys |-> k]

KeyPool == { <<"-", "a">>, <<".", "a">>, <<"_", "a">>, <<"_", "a", "_", "1">> }
KeySeqs ==
    UNION {{k \in [1..n -> KeyPool] : \A i, j \in 1..n : i # j => k[i] # k[j]} :
           n \in 0..MaxKeys}

\* a file that cannot be opened, one whose bytes do not decode, one that is
\* not JSON, one whose JSON is a list, and one mapping of two test cases
RunContents == {Bad("oserror"), Bad("undecodable"), Bad("malformed"), Bad("list"),
                Dict(<< <<"-", "a">>, <<".", "a">> >>)}

\* depth 0, 1 and 2 below a source root, and a file inside a .meta subtree
RelPool == { <<AJson>>, << <<"d">>, AJson >>, << XJsonD, <<"e">>, AJson >>,
             << MetaSeg, AJson >> }

\* the same four shapes, two below each source root of the multi-source
\* generator
PathPool(g) ==
    IF g = "multi"
    THEN {StateTestsRoot \o <<AJson>>, StateTestsRoot \o << MetaSeg, AJson >>,
          GeneralRoot \o << <<"d">>, AJson >>,
          GeneralRoot \o << XJsonD, <<"e">>, AJson >>}
    ELSE {SpecsRoot(g) \o r : r \in RelPool}

Trees(g) ==
    UNION {[S -> RunContents] :
           S \in {T \in SUBSET PathPool(g) : Cardinality(T) <= MaxFiles}}

Generators == {"multi", "state", "blockchain"}

InitSan ==
    /\ raw = <<>>
    /\ variant = "none"
    /\ sanitized = <<>>
    /\ once = <<>>
    /\ passes = 0

NoReport == [total |-> 0, passed |-> 0, failed |-> 0, categories |-> <<>>]

InitAna ==
    /\ log_file = [exists |-> FALSE, lines |-> <<>>]
    /\ apc = "start"
    /\ report = NoReport

InitEns ==
    /\ which = "blockchain"
    /\ canonical = "absent"
    /\ legacy = "absent"
    /\ archive = "absent"
    /\ extracted = "absent"
    /\ otherDir = FALSE
    /\ symlinkWorks = TRUE
    /\ copyWorks = TRUE
    /\ calls = 0
    /\ tiers = <<>>
    /\ destructive = {}
    /\ eresult = "none"
    /\ afterFirst = <<>>

InitRunState ==
    /\ pc = "idle"
    /\ out = EmptyFn
    /\ srcIdx = 1
    /\ todo = {}
    /\ edits = 0
    /\ used_names = EmptyFn
    /\ total_tests = 0
    /\ total_files = 0
    /\ scanned = {}
    /\ prevOut = {}

InitGen ==
    /\ gen \in Generators
    /\ fs \in Trees(gen)
    /\ InitRunState

-----------------------------------------------------------------------------
\* main of generate_tests.py up to the loop over the sources: the output
\* root is removed and recreated.  (ensure_general_state_tests is modelled by
\* EnsureGeneral; here no archive is on disk, so it changes no fixture.)
MainMultiStart ==
    /\ gen = "multi"
    /\ pc \in {"idle", "done", "aborted"}
    /\ prevOut' = UnderRoot(out, OutputRoot(gen))
    /\ out' = Aged(RmTree(out, OutputRoot(gen)))
    /\ srcIdx' = 1
    /\ todo' = {}
    /\ scanned' = {}
    /\ total_tests' = 0
    /\ total_files' = 0
    /\ edits' = 0
    /\ pc' = "scan"
    /\ UNCHANGED <<sanVars, ensVars, anaVars, gen, fs, used_names>>

\* one iteration header of "for source in test_sources": scan the source;
\* "if not json_files: continue"
ScanSource ==
    /\ gen = "multi"
    /\ pc = "scan"
    /\ srcIdx <= Len(TestSources)
    /\ LET source == TestSources[srcIdx]
           json_files == ScanTestDirectory(source.path, source.name, RepoRoot)
       IN  /\ scanned' = scanned \cup {j.json_file : j \in json_files}
           /\ IF json_files = {}
              THEN /\ srcIdx' = srcIdx + 1
                   /\ UNCHANGED <<todo, pc>>
              ELSE /\ todo' = json_files
                   /\ pc' = "compile"
                   /\ UNCHANGED srcIdx
    /\ UNCHANGED <<sanVars, ensVars, anaVars, gen, fs, out, edits, used_names, total_tests,
                   total_files, prevOut>>

\* one iteration of "for i, (json_file, rel_path) in enumerate(json_files, 1)"
\* (rglob yields the files in an order the code does not fix)
CompileFileMulti ==
    /\ gen = "multi"
    /\ pc = "compile"
    /\ \E j \in todo :
         LET r == GenerateTestFileMulti(j.json_file, OutputRoot(gen), j.rel_path,
                                        TestSources[srcIdx].name, used_names)
         IN  IF r.raised
             THEN /\ pc' = "aborted"
                  /\ UNCHANGED <<out, todo, used_names, total_tests, total_files>>
             ELSE /\ out' = r.written @@ out
                  /\ todo' = todo \ {j}
                  /\ used_names' = r.used
                  /\ total_tests' = total_tests + r.count
                  /\ total_files' = total_files + (IF r.count > 0 THEN 1 ELSE 0)
                  /\ UNCHANGED pc
    /\ UNCHANGED <<sanVars, ensVars, anaVars, gen, fs, srcIdx, edits, scanned, prevOut>>

\* the end of one source's loop body: on to the next source
FinishSource ==
    /\ gen = "multi"
    /\ pc = "compile"
    /\ todo = {}
    /\ srcIdx' = srcIdx + 1
    /\ pc' = "scan"
    /\ UNCHANGED <<sanVars, ensVars, anaVars, gen, fs, out, todo, edits, used_names, total_tests,
                   total_files, scanned, prevOut>>

\* after the last source: the summary is printed
FinishMulti ==
    /\ gen = "multi"
    /\ pc = "scan"
    /\ srcIdx > Len(TestSources)
    /\ pc' = "done"
    /\ UNCHANGED <<sanVars, ensVars, anaVars, gen, fs, out, srcIdx, todo, edits, used_names,
                   total_tests, total_files, scanned, prevOut>>

\* main of generate_spec_tests.py up to the loop: the output root is removed
\* and recreated, and the fixture files are listed.  (ensure_blockchain_fixtures
\* is modelled by EnsureBlockchain; here neither a legacy tree nor an archive
\* is on disk, so it changes no fixture.)
MainSingleStart ==
    /\ gen \in {"state", "blockchain"}
    /\ pc \in {"idle", "done", "aborted"}
    /\ prevOut' = UnderRoot(out, OutputRoot(gen))
    /\ out' = Aged(RmTree(out, OutputRoot(gen)))
    /\ todo' = JsonFiles(SpecsRoot(gen))
    /\ scanned' = {j.json_file : j \in JsonFiles(SpecsRoot(gen))}
    /\ total_tests' = 0
    /\ total_files' = 0
    /\ edits' = 0
    /\ pc' = "compile"
    /\ UNCHANGED <<sanVars, ensVars, anaVars, gen, fs, srcIdx, used_names>>

\* one iteration of "for i, json_file in enumerate(json_files, 1)"
CompileFileSingle ==
    /\ gen \in {"state", "blockchain"}
    /\ pc = "compile"
    /\ \E j \in todo :
         LET r == GenerateTestFileSingle(j.json_file, OutputRoot(gen),
                                         SpecsRoot(gen), RepoRoot, used_names)
         IN  IF r.raised
             THEN /\ pc' = "aborted"
                  /\ UNCHANGED <<out, todo, used_names, total_tests>>
             ELSE /\ out' = r.written @@ out
                  /\ todo' = todo \ {j}
                  /\ used_names' = r.used
                  /\ total_tests' = total_tests + r.count
                  /\ UNCHANGED pc
    /\ UNCHANGED <<sanVars, ensVars, anaVars, gen, fs, srcIdx, edits, total_files, scanned, prevOut>>

FinishSingle ==
    /\ gen \in {"state", "blockchain"}
    /\ pc = "compile"
    /\ todo = {}
    /\ pc' = "done"
    /\ UNCHANGED <<sanVars, ensVars, anaVars, gen, fs, out, srcIdx, todo, edits, used_names,
                   total_tests, total_files, scanned, prevOut>>

\* Between two runs the fixture tree changes: a file is added, deleted or
\* renamed.
BetweenRuns == pc \in {"done", "aborted"} /\ edits < MaxEdits

AddFixture ==
    /\ BetweenRuns
    /\ Cardinality(DOMAIN fs) < MaxFiles
    /\ \E p \in PathPool(gen) \ DOMAIN fs, c \in RunContents :
         fs' = (p :> c) @@ fs
    /\ edits' = edits + 1
    /\ UNCHANGED <<sanVars, ensVars, anaVars, gen, pc, out, srcIdx, todo, used_names, total_tests,
                   total_files, scanned, prevOut>>

DeleteFixture ==
    /\ BetweenRuns
    /\ \E p \in DOMAIN fs : fs' = [q \in DOMAIN fs \ {p} |-> fs[q]]
    /\ edits' = edits + 1
    /\ UNCHANGED <<sanVars, ensVars, anaVars, gen, pc, out, srcIdx, todo, used_names, total_tests,
                   total_files, scanned, prevOut>>

RenameFixture ==
    /\ BetweenRuns
    /\ \E p \in DOMAIN fs, n \in PathPool(gen) \ DOMAIN fs :
         fs' = (n :> fs[p]) @@ [q \in DOMAIN fs \ {p} |-> fs[q]]
    /\ edits' = edits + 1
    /\ UNCHANGED <<sanVars, ensVars, anaVars, gen, pc, out, srcIdx, todo, used_names, total_tests,
                   total_files, scanned, prevOut>>

RunStep ==
    \/ MainMultiStart
    \/ ScanSource
    \/ CompileFileMulti
    \/ FinishSource
    \/ FinishMulti
    \/ MainSingleStart
    \/ CompileFileSingle
    \/ FinishSingle

EditStep ==
    \/ AddFixture
    \/ DeleteFixture
    \/ RenameFixture

\* Generation runs over changing fixture trees.
InitRun == InitSan /\ InitEns /\ InitAna /\ InitGen
NextRun == RunStep \/ EditStep
SpecRun == InitRun /\ [][NextRun]_vars

\* Generation runs over two fixture files whose keys range over KeySeqs.
FirstFile(g) == (IF g = "multi" THEN StateTestsRoot ELSE SpecsRoot(g)) \o <<AJson>>
SecondFile(g) == (IF g = "multi" THEN GeneralRoot ELSE SpecsRoot(g)) \o << <<"d">>, AJson >>

\* (the two modes of the single-source generator share generate_test_file;
\* one of them is run here)
InitNames ==
    /\ InitSan
    /\ InitEns
    /\ InitAna
    /\ gen \in {"multi", "state"}
    /\ \E k1, k2 \in KeySeqs :
         fs = (FirstFile(gen) :> Dict(k1)) @@ (SecondFile(gen) :> Dict(k2))
    /\ InitRunState
NextNames == RunStep
SpecNames == InitNames /\ [][NextNames]_vars

-----------------------------------------------------------------------------
\* The sanitizer each generator's generate_test_file calls.
VariantOf(g) == IF g = "multi" THEN "rich" ELSE "plain"

\* C1: within one generated file all test-unit identifiers are pairwise
\* distinct, whatever the keys of the fixture file and their order.
C1_UnitIdsDistinct ==
    \A p \in DOMAIN out :
        \A i, j \in 1..Len(out[p].units) :
            i # j => out[p].units[i].id # out[p].units[j].id

\* C2: in one generated file the units follow the keys in iteration order;
\* among the keys with the same sanitized base B the first is named B and the
\* k-th later one B_k, counted within this file alone.
C2_SuffixByOccurrence ==
    \A p \in DOMAIN out :
        LET f == out[p]
            keys == fs[f.src].keys
            base == [i \in 1..Len(keys) |-> Sanitize(VariantOf(gen), keys[i])]
            earlier(i) == Cardinality({j \in 1..(i - 1) : base[j] = base[i]})
        IN  /\ Len(f.units) = Len(keys)
            /\ \A i \in 1..Len(keys) :
                 /\ f.units[i].test_name = keys[i]
                 /\ f.units[i].id =
                        IF earlier(i) = 0 THEN base[i]
                        ELSE base[i] \o <<"_">> \o Dec(earlier(i))

\* C2 witness: two files of one run both hold the unsuffixed name _a, and one
\* of them also holds its second later occurrence _a_2.
C2_Witness ==
    \E p, q \in DOMAIN out :
        /\ p # q
        /\ out[p].fresh /\ out[q].fresh
        /\ \E i \in 1..Len(out[p].units) : out[p].units[i].id = <<"_", "a", "_", "2">>
        /\ \E i \in 1..Len(out[p].units) : out[p].units[i].id = <<"_", "a">>
        /\ \E i \in 1..Len(out[q].units) : out[q].units[i].id = <<"_", "a">>

\* The fixture source root a fixture file lies under.
SourceRootOf(f) ==
    CHOOSE r \in {StateTestsRoot, GeneralRoot, BlockchainRoot} : IsUnder(f, r)

\* C3: every generated file lies at the generation root joined with the
\* fixture's path relative to its own source root, the final extension alone
\* rewritten, behind the namespace segment for a source beyond the first.
C3_OutputMirrorsSource ==
    \A p \in DOMAIN out :
        LET src == out[p].src
            root == SourceRootOf(src)
            ns == IF gen = "multi" /\ root = GeneralRoot
                  THEN << <<"ethereum_tests">> >> ELSE <<>>
        IN  p = OutputRoot(gen) \o ns \o WithSuffixZig(RelativeTo(src, root))

\* C4: the import of every generated file is as many ".." steps as the file
\* has path segments below the generation root (the file name counted, so at
\* least one) followed by root.zig, and so names root.zig in the directory
\* above the generation root.
C4_ImportDepth ==
    \A p \in DOMAIN out :
        LET root == OutputRoot(gen)
            n == Len(p) - Len(root)
            imp == out[p].import
        IN  /\ IsUnder(p, root)
            /\ n >= 1
            /\ Len(imp) = n + 1
            /\ \A i \in 1..n : imp[i] = ".."
            /\ imp[n + 1] = "root.zig"
            /\ SubSeq(p, 1, Len(p) - 1 - n) = SubSeq(root, 1, Len(root) - 1)

\* C4 witness: one run of the multi-source generator wrote two files at
\* different depths, one behind the namespace segment and one not.
C4_Witness ==
    /\ gen = "multi"
    /\ \E p, q \in DOMAIN out :
         /\ out[p].fresh /\ out[q].fresh
         /\ Len(p) # Len(q)
         /\ p[Len(OutputRoot(gen)) + 1] = <<"ethereum_tests">>
         /\ q[Len(OutputRoot(gen)) + 1] # <<"ethereum_tests">>

\* C4 witness for the single-source generator: a file directly in the
\* generation root beside one two directories down.
C4_WitnessSingle ==
    /\ gen = "state"
    /\ \E p, q \in DOMAIN out :
         /\ out[p].fresh /\ out[q].fresh
         /\ Len(p) = Len(OutputRoot(gen)) + 1
         /\ Len(q) = Len(OutputRoot(gen)) + 3

\* C5: a fixture file that cannot be read or decoded, is not JSON, or is not
\* a mapping never aborts the run and yields no unit, and every other
\* fixture file of the run is compiled.
C5_BadFileNeverAborts ==
    /\ pc # "aborted"
    /\ (pc = "done" /\ edits = 0) =>
          \A f \in scanned :
              LET written == {p \in DOMAIN out : out[p].src = f /\ out[p].fresh}
              IN  IF fs[f].kind = "dict"
                  THEN \E p \in written : Len(out[p].units) = Len(fs[f].keys)
                  ELSE written = {}

\* C6: no generated file comes from a fixture file inside a .meta subtree.
C6_NoMetaCompiled ==
    \A p \in DOMAIN out : ~HasMeta(out[p].src)

\* C7: from the moment a run has cleaned the generation root, every file
\* below it was written by that run; after a completed run every generated
\* file belongs to a fixture that still exists.
C7_CleanRebuild ==
    /\ pc # "idle" =>
          \A p \in UnderRoot(out, OutputRoot(gen)) : out[p].fresh
    /\ (pc = "done" /\ edits = 0) =>
          \A p \in UnderRoot(out, OutputRoot(gen)) : out[p].src \in DOMAIN fs

\* C7 witness: a second run has completed and an output file of the run
\* before it is gone, its fixture deleted or renamed in between.
C7_Witness ==
    /\ pc = "done"
    /\ edits = 0
    /\ \E p \in prevOut : p \notin DOMAIN out
    /\ UnderRoot(out, OutputRoot(gen)) # {}

-----------------------------------------------------------------------------
\* Fixture acquisition.  A directory is "absent", "empty" (it exists and holds
\* no *.json file below it) or "populated"; the canonical path may also be a
\* "link" to the populated legacy tree.  The archive is "absent", "corrupt"
\* (not a gzip tar), or holds a top-level directory: the expected one with
\* fixtures ("fixtures"), the expected one without any *.json ("nojson"), or
\* one of another name ("foreign").
DirStates == {"absent", "empty", "populated"}
ArchiveStates == {"absent", "corrupt", "fixtures", "nojson", "foreign"}
TierNames == <<"present", "link", "copy", "archive", "warning">>

\* path.exists() and any(path.rglob("*.json"))
Exists(d) == d # "absent"
AnyJson(d) == d \in {"populated", "link"}

\* extracting a directory of the archive over what is on disk
Merge(onDisk, fromArchive) ==
    IF onDisk = "populated" \/ fromArchive = "populated" THEN "populated" ELSE "empty"

Disk(c, l, a, x, o) ==
    [canonical |-> c, legacy |-> l, archive |-> a, extracted |-> x, otherDir |-> o]

Outcome(disk, result, t, d) ==
    [disk |-> disk, result |-> result, tiers |-> t, destructive |-> d]

\* tarfile.open(tar_path).extractall(specs_root.parent), then
\* "if extracted_root.exists() and not specs_root.exists(): rename"
ExtractBlockchain(st) ==
    LET x == CASE st.archive = "fixtures" -> Merge(st.extracted, "populated")
               [] st.archive = "nojson" -> Merge(st.extracted, "empty")
               [] OTHER -> st.extracted
        o == st.otherDir \/ st.archive = "foreign"
    IN  IF Exists(x) /\ ~Exists(st.canonical)
        THEN Disk(x, st.legacy, st.archive, "absent", o)
        ELSE Disk(st.canonical, st.legacy, st.archive, x, o)

\* ensure_blockchain_fixtures: the set of ways one call can end, given
\* whether os.symlink and shutil.copytree succeed.  A copytree that fails
\* leaves the exception to the caller, and any part of the copy on disk.
EnsureBlockchainFixtures(st, linkOk, copyOk) ==
    IF Exists(st.canonical) /\ AnyJson(st.canonical)
    THEN {Outcome(st, "returned",
                  <<"ok", "skipped", "skipped", "skipped", "skipped">>, {})}
    ELSE
      LET removed == IF Exists(st.canonical) THEN {"rmtree"} ELSE {}
          s1 == [st EXCEPT !.canonical = "absent"]
      IN  IF Exists(s1.legacy) /\ AnyJson(s1.legacy)
          THEN IF linkOk
               THEN {Outcome([s1 EXCEPT !.canonical = "link"], "returned",
                       <<"inapplicable", "ok", "skipped", "skipped", "skipped">>,
                       removed)}
               ELSE IF copyOk
               THEN {Outcome([s1 EXCEPT !.canonical = "populated"], "returned",
                       <<"inapplicable", "failed", "ok", "skipped", "skipped">>,
                       removed)}
               ELSE {Outcome([s1 EXCEPT !.canonical = partial], "raised",
                       <<"inapplicable", "failed", "failed", "skipped", "skipped">>,
                       removed) : partial \in DirStates}
          ELSE IF Exists(s1.archive)
          THEN IF s1.archive = "corrupt"
               THEN {Outcome(s1, "raised",
                       <<"inapplicable", "inapplicable", "inapplicable", "failed",
                         "skipped">>, removed)}
               ELSE {Outcome(ExtractBlockchain(s1), "returned",
                       <<"inapplicable", "inapplicable", "inapplicable", "ok",
                         "skipped">>, removed \cup {"extract"})}
          ELSE {Outcome(s1, "returned",
                  <<"inapplicable", "inapplicable", "inapplicable", "inapplicable",
                    "ok">>, removed)}

\* ensure_general_state_tests: present (even if empty), else the archive,
\* else a warning; it has no link and no copy tier.
EnsureGeneralStateTests(st) ==
    IF Exists(st.canonical)
    THEN {Outcome(st, "returned",
                  <<"ok", "skipped", "skipped", "skipped", "skipped">>, {})}
    ELSE IF ~Exists(st.archive)
    THEN {Outcome(st, "returned",
            <<"inapplicable", "inapplicable", "inapplicable", "inapplicable", "ok">>,
            {})}
    ELSE IF st.archive = "corrupt"
    THEN {Outcome(st, "raised",
            <<"inapplicable", "inapplicable", "inapplicable", "failed", "skipped">>,
            {})}
    ELSE {Outcome([st EXCEPT
                     !.canonical = CASE st.archive = "fixtures" -> "populated"
                                     [] st.archive = "nojson" -> "empty"
                                     [] OTHER -> "absent",
                     !.otherDir = st.otherDir \/ st.archive = "foreign"],
            "returned",
            <<"inapplicable", "inapplicable", "inapplicable", "ok", "skipped">>,
            {"extract"})}

DiskNow == Disk(canonical, legacy, archive, extracted, otherDir)

Applied(o) ==
    /\ canonical' = o.disk.canonical
    /\ legacy' = o.disk.legacy
    /\ archive' = o.disk.archive
    /\ extracted' = o.disk.extracted
    /\ otherDir' = o.disk.otherDir
    /\ tiers' = o.tiers
    /\ destructive' = o.destructive
    /\ eresult' = o.result
    /\ calls' = calls + 1
    /\ afterFirst' = IF calls = 0 THEN [disk |-> o.disk, result |-> o.result]
                     ELSE afterFirst

EnsureBlockchain ==
    /\ which = "blockchain"
    /\ calls < MaxCalls
    /\ \E o \in EnsureBlockchainFixtures(DiskNow, symlinkWorks, copyWorks) : Applied(o)
    /\ UNCHANGED <<sanVars, genVars, anaVars, which, symlinkWorks, copyWorks>>

EnsureGeneral ==
    /\ which = "general"
    /\ calls < MaxCalls
    /\ \E o \in EnsureGeneralStateTests(DiskNow) : Applied(o)
    /\ UNCHANGED <<sanVars, genVars, anaVars, which, symlinkWorks, copyWorks>>

InitIdleGen ==
    /\ gen = "state"
    /\ fs = EmptyFn
    /\ InitRunState

InitEnsure ==
    /\ InitSan
    /\ InitAna
    /\ InitIdleGen
    /\ which \in {"blockchain", "general"}
    /\ canonical \in DirStates
    /\ archive \in ArchiveStates
    /\ legacy \in (IF which = "blockchain" THEN DirStates ELSE {"absent"})
    /\ extracted \in (IF which = "blockchain" THEN DirStates ELSE {"absent"})
    /\ symlinkWorks \in (IF which = "blockchain" THEN BOOLEAN ELSE {FALSE})
    /\ copyWorks \in (IF which = "blockchain" THEN BOOLEAN ELSE {FALSE})
    /\ otherDir = FALSE
    /\ calls = 0
    /\ tiers = <<>>
    /\ destructive = {}
    /\ eresult = "none"
    /\ afterFirst = <<>>
NextEnsure == EnsureBlockchain \/ EnsureGeneral
SpecEnsure == InitEnsure /\ [][NextEnsure]_vars

\* C8: ensure_blockchain_fixtures tries present, link, copy, archive,
\* warning in this order, stops at the first tier that succeeds, and tries a
\* tier exactly when every earlier one was inapplicable or failed: no call
\* ends with a tier left untried while none before it succeeded.
C8_FallbackChain ==
    (which = "blockchain" /\ calls > 0) =>
        /\ eresult = "returned"
        /\ \A t \in 1..Len(TierNames) :
             (tiers[t] = "skipped") <=> (\E u \in 1..(t - 1) : tiers[u] = "ok")

\* C9: a second ensure call in a row leaves the filesystem as the first call
\* left it, and deletes, overwrites and extracts nothing.
C9_EnsureIdempotent ==
    (calls >= 2 /\ afterFirst.result = "returned" /\ eresult = "returned") =>
        /\ DiskNow = afterFirst.disk
        /\ destructive = {}

-----------------------------------------------------------------------------
\* The sanitizer applied to raw names: a letter, a digit, the separator, a
\* character of the fixed replacement list, a colon (single, or doubled as
\* "::") and a character outside every list.
SanAlphabet == {"a", "7", "_", "-", ":", "$"}
RawNames == UNION {[1..n -> SanAlphabet] : n \in 0..MaxLen}

SanitizeWith(v) ==
    /\ variant \in {"none", v}
    /\ passes < MaxPasses
    /\ variant' = v
    /\ sanitized' = Sanitize(v, IF passes = 0 THEN raw ELSE sanitized)
    /\ once' = IF passes = 0 THEN Sanitize(v, raw) ELSE once
    /\ passes' = passes + 1
    /\ UNCHANGED <<raw, genVars, ensVars, anaVars>>

ApplyRich == SanitizeWith("rich")
ApplyPlain == SanitizeWith("plain")

InitSanitizer ==
    /\ raw \in RawNames
    /\ variant = "none"
    /\ sanitized = <<>>
    /\ once = <<>>
    /\ passes = 0
    /\ InitIdleGen
    /\ InitEns
    /\ InitAna
NextSanitizer == ApplyRich \/ ApplyPlain
SpecSanitizer == InitSanitizer /\ [][NextSanitizer]_vars

\* C10: for every raw name, the empty one and an all-punctuation one
\* included, the sanitized name is a valid identifier: not empty, made of
\* alphanumeric characters and "_" only, and not starting with a digit.
C10_ValidIdentifier ==
    passes >= 1 =>
        /\ once # <<>>
        /\ \A i \in 1..Len(once) : IsAlnum(once[i]) \/ once[i] = "_"
        /\ ~IsDigit(once[1])

\* C11: for every raw name and both variants, sanitizing an already
\* sanitized name changes nothing: sanitize(sanitize(x)) = sanitize(x); the
\* "test_" prefix of a name starting with a digit is added once, and a run of
\* separators stays as the first pass left it.
C11_Idempotent == passes >= 2 => sanitized = once

\* a name starting with a digit and holding a run of two replaced characters,
\* sanitized twice
C11_Witness ==
    /\ passes >= 2
    /\ raw # <<>>
    /\ IsDigit(raw[1])
    /\ \E i \in 1..(Len(raw) - 1) : ~IsAlnum(raw[i]) /\ ~IsAlnum(raw[i + 1])
    /\ Len(once) > Len(TestPrefix)
    /\ SubSeq(once, 1, Len(TestPrefix)) = TestPrefix
    /\ sanitized = once

-----------------------------------------------------------------------------
\* The result analyzer, scripts/analyze_test_results.py.  The text of a log
\* is a sequence of tokens: the word "test", a dot, a name segment, a status
\* word, or white space.
MaxLines == 2      \* most lines in the log file

Dot == "."
IsSpace(t) == t \in {" ", "\n"}
StatusWords == {"OK", "FAIL"}
Ellipsis == <<Dot, Dot, Dot>>

\* f.read(): the lines of the file, each ended by a newline
RECURSIVE Content(_)
Content(lines) ==
    IF lines = <<>> THEN <<>> ELSE Head(lines) \o <<"\n">> \o Content(Tail(lines))

\* test_pattern = r'test\.([^\s]+)\.\.\.(?:OK|FAIL)' tried at position i:
\* the positions where group 1 can end
MatchEnds(c, i) ==
    IF i + 1 <= Len(c) /\ c[i] = "test" /\ c[i + 1] = Dot
    THEN {k \in (i + 2)..(Len(c) - 4) :
            /\ \A j \in (i + 2)..k : ~IsSpace(c[j])
            /\ SubSeq(c, k + 1, k + 3) = Ellipsis
            /\ c[k + 4] \in StatusWords}
    ELSE {}

\* [^\s]+ is greedy: group 1 ends at the last such position
GreedyEnd(c, i) == CHOOSE k \in MatchEnds(c, i) : \A m \in MatchEnds(c, i) : m <= k

\* s.split('...')[-1]: what follows the last of the leftmost, non-overlapping
\* occurrences of "..."
RECURSIVE LastAfterEllipsis(_)
LastAfterEllipsis(s) ==
    LET at == {i \in 1..(Len(s) - 2) : SubSeq(s, i, i + 2) = Ellipsis}
    IN  IF at = {} THEN s
        ELSE LET i == CHOOSE j \in at : \A m \in at : j <= m
             IN  LastAfterEllipsis(SubSeq(s, i + 3, Len(s)))

\* re.finditer(test_pattern, content) from position pos on: the matches, in
\* order, each with test_name = group(1) and status taken from group(0)
RECURSIVE FindIter(_, _)
FindIter(c, pos) ==
    LET starts == {i \in pos..Len(c) : MatchEnds(c, i) # {}}
    IN  IF starts = {} THEN <<>>
        ELSE LET i == CHOOSE j \in starts : \A m \in starts : j <= m
                 k == GreedyEnd(c, i)
             IN  << [test_name |-> SubSeq(c, i + 2, k),
                     status |-> LastAfterEllipsis(SubSeq(c, i, k + 4))] >>
                 \o FindIter(c, k + 5)

\* test_name.split('.')
RECURSIVE Split(_)
Split(name) ==
    LET at == {i \in 1..Len(name) : name[i] = Dot}
    IN  IF at = {} THEN <<name>>
        ELSE LET i == CHOOSE j \in at : \A m \in at : j <= m
             IN  <<SubSeq(name, 1, i - 1)>> \o Split(SubSeq(name, i + 1, Len(name)))

Unknown == <<"unknown">>

\* extract_category(test_name)
ExtractCategory(test_name) ==
    LET parts == Split(test_name)
    IN  IF Len(parts) >= 2 THEN parts[2] ELSE Unknown

\* the passed and failed lists: positions of the matches with each status
Passed(ms) == {i \in 1..Len(ms) : ms[i].status = <<"OK">>}
Failed(ms) == {i \in 1..Len(ms) : ms[i].status # <<"OK">>}

\* categories: one entry per category seen, counting its passed and failed
Categories(ms) ==
    [cat \in {ExtractCategory(ms[i].test_name) : i \in 1..Len(ms)} |->
        [passed |-> Cardinality({i \in Passed(ms) :
                                   ExtractCategory(ms[i].test_name) = cat}),
         failed |-> Cardinality({i \in Failed(ms) :
                                   ExtractCategory(ms[i].test_name) = cat})]]

\* the dictionary analyze_test_results returns
AnalyzeTestResults(lines) ==
    LET ms == FindIter(Content(lines), 1)
    IN  [total |-> Cardinality(Passed(ms)) + Cardinality(Failed(ms)),
         passed |-> Cardinality(Passed(ms)),
         failed |-> Cardinality(Failed(ms)),
         categories |-> Categories(ms)]

\* A line of harness output reporting one test.
ResultLine(name, status) == <<"test", Dot>> \o name \o Ellipsis \o <<status>>

\* Names of one, two and three segments.
NamePool == { <<"x">>,
              <<"C", Dot, "x">>, <<"C", Dot, "y">>, <<"D", Dot, "x">>,
              <<"s", Dot, "C", Dot, "x">> }
\* Lines of a log: results, and a line that reports nothing.
LinePool == {ResultLine(n, st) : n \in NamePool, st \in StatusWords}
            \cup { <<"Build", " ", "Summary">> }
Logs == UNION {[1..n -> LinePool] : n \in 0..MaxLines}

\* __main__ with the log file present: analyze_test_results(log_file)
Analyze ==
    /\ apc = "start"
    /\ log_file.exists
    /\ report' = AnalyzeTestResults(log_file.lines)
    /\ apc' = "analyzed"
    /\ UNCHANGED <<sanVars, genVars, ensVars, log_file>>

\* __main__ with the log file missing: the error message and sys.exit(1)
MissingLog ==
    /\ apc = "start"
    /\ ~log_file.exists
    /\ apc' = "exited"
    /\ UNCHANGED <<sanVars, genVars, ensVars, log_file, report>>

InitAnalyzer ==
    /\ InitSan
    /\ InitIdleGen
    /\ InitEns
    /\ log_file \in {[exists |-> FALSE, lines |-> <<>>]}
                    \cup {[exists |-> TRUE, lines |-> l] : l \in Logs}
    /\ apc = "start"
    /\ report = NoReport
NextAnalyzer == Analyze \/ MissingLog
SpecAnalyzer == InitAnalyzer /\ [][NextAnalyzer]_vars

\* The lines of the log that report a test, in order.
RECURSIVE Reporting(_)
Reporting(lines) ==
    IF lines = <<>> THEN <<>>
    ELSE (IF Head(lines)[1] = "test" THEN <<Head(lines)>> ELSE <<>>)
         \o Reporting(Tail(lines))

\* The log of the scenario: its reporting lines are test.C.x...OK and
\* test.C.y...FAIL, in either order.
ScenarioLog ==
    LET r == Reporting(log_file.lines)
    IN  /\ log_file.exists
        /\ Len(r) = 2
        /\ {r[1], r[2]} = {ResultLine(<<"C", Dot, "x">>, "OK"),
                           ResultLine(<<"C", Dot, "y">>, "FAIL")}

\* C12: each matched line is counted under the second dot-delimited segment
\* of its test name, so a log whose only matched lines are test.C.x...OK and
\* test.C.y...FAIL yields exactly one category, C, with passed = 1 and
\* failed = 1, and the totals passed = 1, failed = 1, total = 2.
C12_CategoryCounts ==
    (apc = "analyzed" /\ ScenarioLog) =>
        /\ report.total = 2
        /\ report.passed = 1
        /\ report.failed = 1
        /\ DOMAIN report.categories = {<<"C">>}
        /\ report.categories[<<"C">>] = [passed |-> 1, failed |-> 1]

=============================================================================
